---- MODULE Spec2Model ----
(***************************************************************************)
(* Treatment / alarm lifecycle and ownership gate of the PillCare API.     *)
(*                                                                         *)
(* The database is the only shared state.  Every HTTP handler is one       *)
(* action: FastAPI resolves the dependencies (authentication, the          *)
(* ownership gate), then validates the request body, then runs the         *)
(* handler body, which ends in a commit.                                   *)
(*                                                                         *)
(* Representation:                                                         *)
(*   - a table is a function from the ids of its rows to records;          *)
(*   - a date is a day number, `today` is date.today();                    *)
(*   - a string that the code parses, orders or normalises (an alarm       *)
(*     time, a medication's name and dosage) is the sequence of its        *)
(*     characters, "08:30" is <<"0","8",":","3","0">>;                     *)
(*   - a treatment's notes are the sequence of their lines; None and ""    *)
(*     are both falsy in the code and are both <<>>;                       *)
(*   - `inflight` holds the requests that were sent together and wait for  *)
(*     their handler; it is empty where requests come one at a time;       *)
(*   - free-text columns that no decision reads (frequency, instructions,  *)
(*     phone, ...) and the timestamps but last_login are left out.         *)
(***************************************************************************)
EXTENDS Integers, Sequences, FiniteSets, TLC

VARIABLES users, patients, medications, treatments, alarms,
          nextPatientId, nextTreatmentId, nextAlarmId, nextMedicationId,
          inflight, today, resp

vars == <<users, patients, medications, treatments, alarms,
          nextPatientId, nextTreatmentId, nextAlarmId, nextMedicationId,
          inflight, today, resp>>

dbvars == <<users, patients, medications, treatments, alarms,
            nextPatientId, nextTreatmentId, nextAlarmId, nextMedicationId>>

----------------------------------------------------------------------------
(* Bounds of the model *)

\* rows ever inserted in each table (the ids are auto-incremented)
MaxPatientId == 2
MaxTreatmentId == 2
MaxAlarmId == 3
MaxMedicationId == 3
\* the days the clock and the date inputs range over: 0..MaxDate
MaxDate == 2
\* lines a treatment's notes may grow to
MaxNoteLines == 2
\* entries of one alarm-sync request
MaxSyncLen == 2

----------------------------------------------------------------------------
(* Enumerations of the source *)

UserRole == {"ADMIN", "CAREGIVER", "PATIENT"}

TreatmentStatus == {"ACTIVE", "COMPLETED", "SUSPENDED", "CANCELLED"}

\* an optional request field that was not sent
Unset == "<unset>"
\* SQL NULL / Python None in a text column
Null == "<null>"


\* one line of a treatment's notes: the prefix the code writes and the text
NoteLine(tag, text) == [tag |-> tag, text |-> text]

\* mutant: every request is answered Forbidden, whatever it did
Response_Forbidden(op, kind, ids, list) ==
    [op |-> op, kind |-> "Forbidden", ids |-> ids, list |-> list]

\* the response to the last request: the handler that answered, the outcome,
\* and the rows returned (treatment ids, alarm list)
Response(op, kind, ids, list) ==
    [op |-> op, kind |-> kind, ids |-> ids, list |-> list]

NoResponse == Response("none", "none", {}, <<>>)

----------------------------------------------------------------------------
(* Identity and the ownership gate: app/core/dependencies.py *)

\* mutant: is_active is not looked at
get_current_user_AnyStatus(u) ==
    IF u \notin DOMAIN users THEN "InvalidToken" ELSE "Ok"

\* get_current_user: the token's subject must be a user row, and active;
\* a subject that is no row gets the 401 of a token that cannot be validated
get_current_user(u) ==
    IF u \notin DOMAIN users THEN "InvalidToken"
    ELSE IF ~users[u].is_active THEN "InactiveAccount"
    ELSE "Ok"

\* get_caregiver_user: role must be CAREGIVER or ADMIN
get_caregiver_user(u) ==
    IF get_current_user(u) # "Ok" THEN get_current_user(u)
    ELSE IF users[u].role \notin {"CAREGIVER", "ADMIN"} THEN "Forbidden"
    ELSE "Ok"

\* mutant: the row decides, whatever the role
verify_patient_access_AnyRole(u, p) ==
    IF get_current_user(u) # "Ok" THEN get_current_user(u)
    ELSE IF users[u].role = "ADMIN" THEN "Ok"
    ELSE IF p \in DOMAIN patients /\ patients[p].caregiver_id = u
         THEN "Ok" ELSE "Forbidden"

\* verify_patient_access, after get_current_user
verify_patient_access(u, p) ==
    IF get_current_user(u) # "Ok" THEN get_current_user(u)
    ELSE IF users[u].role = "ADMIN" THEN "Ok"
    ELSE IF users[u].role = "CAREGIVER"
         THEN IF p \in DOMAIN patients /\ patients[p].caregiver_id = u
              THEN "Ok" ELSE "Forbidden"
    ELSE "Forbidden"

\* mutant: a treatment that does not exist is reported as such
verify_treatment_access_NotFound(u, t) ==
    IF get_current_user(u) # "Ok" THEN get_current_user(u)
    ELSE IF users[u].role = "ADMIN" THEN "Ok"
    ELSE IF t \notin DOMAIN treatments THEN "NotFound"
    ELSE IF /\ users[u].role = "CAREGIVER"
            /\ treatments[t].patient_id \in DOMAIN patients
            /\ patients[treatments[t].patient_id].caregiver_id = u
         THEN "Ok" ELSE "Forbidden"

\* verify_treatment_access, after get_current_user: Treatment JOIN Patient
verify_treatment_access(u, t) ==
    IF get_current_user(u) # "Ok" THEN get_current_user(u)
    ELSE IF users[u].role = "ADMIN" THEN "Ok"
    ELSE IF users[u].role = "CAREGIVER"
         THEN IF /\ t \in DOMAIN treatments
                 /\ treatments[t].patient_id \in DOMAIN patients
                 /\ patients[treatments[t].patient_id].caregiver_id = u
              THEN "Ok" ELSE "Forbidden"
    ELSE "Forbidden"

----------------------------------------------------------------------------
(* Treatments: app/schemas/treatment.py, app/services/treatment_service.py, *)
(* app/api/treatments.py                                                    *)

\* mutant: the comparison loses its equality (end < start instead of <=)
TreatmentBase_validate_end_date_Lt(data) == data.end_date >= data.start_date

\* TreatmentBase.validate_end_date: the body is rejected when end <= start
TreatmentBase_validate_end_date(data) == data.end_date > data.start_date

\* TreatmentCreate.validate_duration: a validator is given, in `values`, the
\* fields declared before its own, and duration_days is declared after
\* patient_id, medication_id, dosage and frequency and before the dates; the
\* body is rejected when the dates are in `values` and the duration is more
\* than a day off the days they span
TreatmentCreate_validate_duration(data) ==
    LET values == {"patient_id", "medication_id", "dosage", "frequency"}
        calculated_duration == (data.end_date - data.start_date) + 1
    IN  ("start_date" \in values /\ "end_date" \in values) =>
            /\ data.duration_days - calculated_duration <= 1
            /\ calculated_duration - data.duration_days <= 1

\* TreatmentUpdate.validate_end_date: checked only when both dates are sent
TreatmentUpdate_validate_end_date(upd) ==
    ("end_date" \in upd.keys /\ "start_date" \in upd.keys)
        => upd.end_date > upd.start_date

\* mutant: any id passes for a medication
medication_exists_Any(m) == TRUE

\* TreatmentService.medication_exists
medication_exists(m) == m \in DOMAIN medications

\* TreatmentService.check_medication_conflicts: reads the patient's ACTIVE
\* treatments and reports no conflict
check_medication_conflicts(p, m) ==
    LET active_treatments ==
            {t \in DOMAIN treatments :
                treatments[t].patient_id = p /\ treatments[t].status = "ACTIVE"}
    IN  FALSE

\* TreatmentService.create_treatment: the row it inserts
create_treatment(data) ==
    [patient_id    |-> data.patient_id,
     medication_id |-> data.medication_id,
     start_date    |-> data.start_date,
     end_date      |-> data.end_date,
     notes         |-> data.notes,
     status        |-> "ACTIVE"]

\* TreatmentService.update_treatment: setattr for every field that was sent
update_treatment(tr, upd) ==
    [f \in DOMAIN tr |-> IF f \in upd.keys THEN upd[f] ELSE tr[f]]

\* mutant: cancelling also ends the treatment today
cancel_treatment_EndsToday(tr) ==
    [tr EXCEPT !.status = "CANCELLED", !.end_date = today]

\* TreatmentService.cancel_treatment
cancel_treatment(tr) == [tr EXCEPT !.status = "CANCELLED"]

\* mutant: only a suspended treatment is activated
activate_treatment_OnlySuspended(tr) ==
    IF tr.status = "SUSPENDED" THEN [tr EXCEPT !.status = "ACTIVE"] ELSE tr

\* mutant: activation starts the notes afresh
activate_treatment_ClearsNotes(tr) ==
    [tr EXCEPT !.status = "ACTIVE", !.notes = <<>>]

\* TreatmentService.activate_treatment
activate_treatment(tr) == [tr EXCEPT !.status = "ACTIVE"]

\* mutant: the reason replaces the notes
suspend_treatment_Overwrites(tr, reason) ==
    [tr EXCEPT !.status = "SUSPENDED",
               !.notes = <<NoteLine("Suspendido: ", reason)>>]

\* TreatmentService.suspend_treatment: the reason goes to the notes
suspend_treatment(tr, reason) ==
    [tr EXCEPT !.status = "SUSPENDED",
               !.notes = IF tr.notes # <<>>
                         THEN tr.notes \o <<NoteLine("Suspendido: ", reason)>>
                         ELSE <<NoteLine("Suspendido: ", reason)>>]

\* TreatmentService.complete_treatment: notes are appended when truthy
complete_treatment(tr, notes) ==
    [tr EXCEPT !.status = "COMPLETED",
               !.notes = IF notes # ""
                         THEN IF tr.notes # <<>>
                              THEN tr.notes \o <<NoteLine("Completado: ", notes)>>
                              ELSE <<NoteLine("Completado: ", notes)>>
                         ELSE tr.notes]

\* TreatmentService.get_treatments_by_caregiver: the filters it applies
\* (0 and Unset are the falsy values of the optional filters)
get_treatments_by_caregiver(caregiver_id, patient_id, status, medication_id) ==
    {t \in DOMAIN treatments :
        /\ (patient_id # 0 => treatments[t].patient_id = patient_id)
        /\ (status # Unset => treatments[t].status = status)
        /\ (medication_id # 0 => treatments[t].medication_id = medication_id)}

----------------------------------------------------------------------------
(* Treatment endpoints: app/api/treatments.py.  Each outcome operator is    *)
(* the chain of checks of the handler, in the order FastAPI runs them.      *)

\* POST /treatments/ : the checks of create_treatment.  The insert fails on
\* the patient foreign key when an ADMIN names a patient that does not exist.
create_treatment_outcome(u, data) ==
    IF get_caregiver_user(u) # "Ok" THEN get_caregiver_user(u)
    ELSE IF ~TreatmentCreate_validate_duration(data) THEN "DurationMismatch"
    ELSE IF ~TreatmentBase_validate_end_date(data) THEN "InvalidDateRange"
    ELSE IF verify_patient_access(u, data.patient_id) # "Ok" THEN "Forbidden"
    ELSE IF ~medication_exists(data.medication_id) THEN "MedicationNotFound"
    ELSE IF data.start_date > data.end_date THEN "InvalidDateRange"
    ELSE IF check_medication_conflicts(data.patient_id, data.medication_id)
         THEN "MedicationConflict"
    ELSE IF data.patient_id \notin DOMAIN patients THEN "InternalError"
    ELSE "Ok"

CreateTreatment(u, data) ==
    /\ nextTreatmentId <= MaxTreatmentId
    /\ LET kind == create_treatment_outcome(u, data)
       IN  /\ treatments' =
                IF kind = "Ok"
                THEN [t \in DOMAIN treatments \cup {nextTreatmentId} |->
                        IF t = nextTreatmentId THEN create_treatment(data)
                        ELSE treatments[t]]
                ELSE treatments
           /\ nextTreatmentId' =
                IF kind = "Ok" THEN nextTreatmentId + 1 ELSE nextTreatmentId
           /\ resp' = Response("create_treatment", kind,
                               IF kind = "Ok" THEN {nextTreatmentId} ELSE {}, <<>>)
    /\ UNCHANGED <<inflight, users, nextMedicationId,
                   patients, medications, alarms,
                   nextPatientId, nextAlarmId, today>>

\* GET /treatments/ : list_treatments
list_treatments_outcome(u) == get_caregiver_user(u)

ListTreatments(u, patient_id, status, medication_id) ==
    /\ LET kind == list_treatments_outcome(u)
       IN  resp' = Response("list_treatments", kind,
                            IF kind = "Ok"
                            THEN get_treatments_by_caregiver(
                                     u, patient_id, status, medication_id)
                            ELSE {}, <<>>)
    /\ UNCHANGED <<inflight, dbvars, today>>

\* GET /treatments/{id} : get_treatment
get_treatment_outcome(u, t) ==
    IF verify_treatment_access(u, t) # "Ok" THEN verify_treatment_access(u, t)
    ELSE IF t \notin DOMAIN treatments THEN "NotFound"
    ELSE "Ok"

GetTreatment(u, t) ==
    /\ LET kind == get_treatment_outcome(u, t)
       IN  resp' = Response("get_treatment", kind,
                            IF kind = "Ok" THEN {t} ELSE {}, <<>>)
    /\ UNCHANGED <<inflight, dbvars, today>>

\* PUT /treatments/{id} : update_treatment.  The gate is a dependency and runs
\* before the body is validated.
update_treatment_outcome(u, t, upd) ==
    IF verify_treatment_access(u, t) # "Ok" THEN verify_treatment_access(u, t)
    ELSE IF ~TreatmentUpdate_validate_end_date(upd) THEN "InvalidDateRange"
    ELSE IF t \notin DOMAIN treatments THEN "NotFound"
    ELSE IF /\ "start_date" \in upd.keys /\ "end_date" \in upd.keys
            /\ upd.start_date > upd.end_date THEN "InvalidDateRange"
    ELSE "Ok"

UpdateTreatment(u, t, upd) ==
    /\ LET kind == update_treatment_outcome(u, t, upd)
       IN  /\ treatments' =
                IF kind = "Ok"
                THEN [treatments EXCEPT ![t] = update_treatment(@, upd)]
                ELSE treatments
           /\ resp' = Response("update_treatment", kind,
                               IF kind = "Ok" THEN {t} ELSE {}, <<>>)
    /\ UNCHANGED <<inflight, users, nextMedicationId,
                   patients, medications, alarms,
                   nextPatientId, nextTreatmentId, nextAlarmId, today>>

\* DELETE /treatments/{id} : delete_treatment cancels the treatment
delete_treatment_outcome(u, t) ==
    IF verify_treatment_access(u, t) # "Ok" THEN verify_treatment_access(u, t)
    ELSE IF t \notin DOMAIN treatments THEN "NotFound"
    ELSE "Ok"

DeleteTreatment(u, t) ==
    /\ LET kind == delete_treatment_outcome(u, t)
       IN  /\ treatments' =
                IF kind = "Ok"
                THEN [treatments EXCEPT ![t] = cancel_treatment(@)]
                ELSE treatments
           /\ resp' = Response("delete_treatment", kind, {}, <<>>)
    /\ UNCHANGED <<inflight, users, nextMedicationId,
                   patients, medications, alarms,
                   nextPatientId, nextTreatmentId, nextAlarmId, today>>

\* POST /treatments/{id}/activate|suspend|complete : the service answers
\* False for a treatment that does not exist and the handler turns it to 400
lifecycle_outcome(u, t) ==
    IF verify_treatment_access(u, t) # "Ok" THEN verify_treatment_access(u, t)
    ELSE IF t \notin DOMAIN treatments THEN "BadRequest"
    ELSE "Ok"

ActivateTreatment(u, t) ==
    /\ LET kind == lifecycle_outcome(u, t)
       IN  /\ treatments' =
                IF kind = "Ok"
                THEN [treatments EXCEPT ![t] = activate_treatment(@)]
                ELSE treatments
           /\ resp' = Response("activate_treatment", kind, {}, <<>>)
    /\ UNCHANGED <<inflight, users, nextMedicationId,
                   patients, medications, alarms,
                   nextPatientId, nextTreatmentId, nextAlarmId, today>>

SuspendTreatment(u, t, reason) ==
    /\ t \in DOMAIN treatments => Len(treatments[t].notes) < MaxNoteLines
    /\ LET kind == lifecycle_outcome(u, t)
       IN  /\ treatments' =
                IF kind = "Ok"
                THEN [treatments EXCEPT ![t] = suspend_treatment(@, reason)]
                ELSE treatments
           /\ resp' = Response("suspend_treatment", kind, {}, <<>>)
    /\ UNCHANGED <<inflight, users, nextMedicationId,
                   patients, medications, alarms,
                   nextPatientId, nextTreatmentId, nextAlarmId, today>>

CompleteTreatment(u, t, notes) ==
    /\ (t \in DOMAIN treatments /\ notes # "")
            => Len(treatments[t].notes) < MaxNoteLines
    /\ LET kind == lifecycle_outcome(u, t)
       IN  /\ treatments' =
                IF kind = "Ok"
                THEN [treatments EXCEPT ![t] = complete_treatment(@, notes)]
                ELSE treatments
           /\ resp' = Response("complete_treatment", kind, {}, <<>>)
    /\ UNCHANGED <<inflight, users, nextMedicationId,
                   patients, medications, alarms,
                   nextPatientId, nextTreatmentId, nextAlarmId, today>>

----------------------------------------------------------------------------
(* Patients: app/services/patient_service.py, app/api/patients.py *)

\* mutant: the lookup finds nothing
get_patient_by_email_None(email) == {}

\* PatientService.get_patient_by_email: the ids of the rows with that email
get_patient_by_email(email) ==
    {p \in DOMAIN patients : patients[p].email = email}

\* mutant: no treatment counts
has_active_treatments_Never(p) == FALSE

\* mutant: the end date is not looked at
has_active_treatments_AnyDate(p) ==
    Cardinality({t \in DOMAIN treatments :
                    /\ treatments[t].patient_id = p
                    /\ treatments[t].status = "ACTIVE"}) > 0

\* PatientService.has_active_treatments
has_active_treatments(p) ==
    Cardinality({t \in DOMAIN treatments :
                    /\ treatments[t].patient_id = p
                    /\ treatments[t].status = "ACTIVE"
                    /\ treatments[t].end_date >= today}) > 0

\* PatientService.create_patient: the row it inserts
create_patient(data, caregiver_id) ==
    [name |-> data.name, email |-> data.email, caregiver_id |-> caregiver_id]

\* PatientService.update_patient: setattr for every field that was sent
update_patient(pt, upd) ==
    [f \in DOMAIN pt |-> IF f \in upd.keys THEN upd[f] ELSE pt[f]]

\* Patient.treatments and Treatment.alarms are cascade="all, delete-orphan":
\* the treatment ids that go with patient p
patient_treatments(p) == {t \in DOMAIN treatments : treatments[t].patient_id = p}

\* POST /patients/ : create_patient
create_patient_outcome(u, data) ==
    IF get_caregiver_user(u) # "Ok" THEN get_caregiver_user(u)
    ELSE IF get_patient_by_email(data.email) # {} THEN "DuplicateResource"
    ELSE "Ok"

CreatePatient(u, data) ==
    /\ nextPatientId <= MaxPatientId
    /\ LET kind == create_patient_outcome(u, data)
       IN  /\ patients' =
                IF kind = "Ok"
                THEN [p \in DOMAIN patients \cup {nextPatientId} |->
                        IF p = nextPatientId THEN create_patient(data, u)
                        ELSE patients[p]]
                ELSE patients
           /\ nextPatientId' =
                IF kind = "Ok" THEN nextPatientId + 1 ELSE nextPatientId
           /\ resp' = Response("create_patient", kind, {}, <<>>)
    /\ UNCHANGED <<inflight, users, nextMedicationId,
                   medications, treatments, alarms,
                   nextTreatmentId, nextAlarmId, today>>

\* PUT /patients/{id} : update_patient
update_patient_outcome(u, p, upd) ==
    IF verify_patient_access(u, p) # "Ok" THEN verify_patient_access(u, p)
    ELSE IF p \notin DOMAIN patients THEN "NotFound"
    ELSE IF /\ "email" \in upd.keys
            /\ upd.email # patients[p].email
            /\ get_patient_by_email(upd.email) # {} THEN "DuplicateResource"
    ELSE "Ok"

UpdatePatient(u, p, upd) ==
    /\ LET kind == update_patient_outcome(u, p, upd)
       IN  /\ patients' =
                IF kind = "Ok"
                THEN [patients EXCEPT ![p] = update_patient(@, upd)]
                ELSE patients
           /\ resp' = Response("update_patient", kind, {}, <<>>)
    /\ UNCHANGED <<inflight, users, nextMedicationId,
                   medications, treatments, alarms,
                   nextPatientId, nextTreatmentId, nextAlarmId, today>>

\* DELETE /patients/{id} : delete_patient
delete_patient_outcome(u, p) ==
    IF verify_patient_access(u, p) # "Ok" THEN verify_patient_access(u, p)
    ELSE IF p \notin DOMAIN patients THEN "NotFound"
    ELSE IF has_active_treatments(p) THEN "DependentResourceExists"
    ELSE "Ok"

\* what the request does to the rows when its outcome is kind, and its
\* answer: PatientService.delete_patient after the checks
delete_patient_body(p, kind) ==
    /\ patients' =
            IF kind = "Ok"
            THEN [q \in DOMAIN patients \ {p} |-> patients[q]]
            ELSE patients
    /\ treatments' =
            IF kind = "Ok"
            THEN [t \in DOMAIN treatments \ patient_treatments(p) |->
                    treatments[t]]
            ELSE treatments
    /\ alarms' =
            IF kind = "Ok"
            THEN [a \in {b \in DOMAIN alarms :
                            alarms[b].treatment_id \notin patient_treatments(p)}
                    |-> alarms[a]]
            ELSE alarms
    /\ resp' = Response("delete_patient", kind, {}, <<>>)
    /\ UNCHANGED <<users, nextMedicationId, medications,
                   nextPatientId, nextTreatmentId, nextAlarmId, today>>

DeletePatient(u, p) ==
    /\ delete_patient_body(p, delete_patient_outcome(u, p))
    /\ UNCHANGED inflight

\* The same handler answering request r of those in flight, in the two
\* stretches that the event loop runs without another request in between.
\* First the dependencies: the token and the gate.  A request that is
\* refused is answered; one that passes waits for its handler
DeletePatientAdmit(r) ==
    /\ inflight[r].pc = "sent"
    /\ LET kind == verify_patient_access(inflight[r].u, inflight[r].p)
       IN  /\ inflight' =
                [inflight EXCEPT ![r].pc =
                    IF kind = "Ok" THEN "admitted" ELSE "done"]
           /\ resp' = IF kind = "Ok" THEN resp
                      ELSE Response("delete_patient", kind, {}, <<>>)
    /\ UNCHANGED <<dbvars, today>>

\* then the body of the handler, an async def that never awaits: the
\* lookup, the check for active treatments, the delete and the commit
DeletePatientInFlight(r) ==
    /\ inflight[r].pc = "admitted"
    /\ delete_patient_body(inflight[r].p,
            IF inflight[r].p \notin DOMAIN patients THEN "NotFound"
            ELSE IF has_active_treatments(inflight[r].p)
                 THEN "DependentResourceExists"
            ELSE "Ok")
    /\ inflight' = [inflight EXCEPT ![r].pc = "done"]

\* date.today() moves on
Tick ==
    /\ today < MaxDate
    /\ today' = today + 1
    /\ UNCHANGED <<inflight, dbvars, resp>>

----------------------------------------------------------------------------
(* Medications: app/schemas/medication.py, app/models/medication.py,        *)
(* app/services/medication_service.py, app/api/medications.py.  A name and  *)
(* a dosage are the sequences of their characters.                          *)

MedicationUnit == {"mg", "ml", "tablets", "capsules", "drops", "patches"}

\* str.lower and str.upper on one character
LowerChar(c) == IF c = "A" THEN "a" ELSE IF c = "B" THEN "b" ELSE c
UpperChar(c) == IF c = "a" THEN "A" ELSE IF c = "b" THEN "B" ELSE c
IsCased(c) == c \in {"a", "b", "A", "B"}

\* str.lower
lower(s) == [i \in 1..Len(s) |-> LowerChar(s[i])]

\* str.title: a cased character is upper case after an uncased one (or at
\* the start) and lower case after a cased one
title(s) ==
    [i \in 1..Len(s) |->
        IF i = 1 \/ ~IsCased(s[i - 1]) THEN UpperChar(s[i]) ELSE LowerChar(s[i])]

\* str.strip
RECURSIVE lstrip(_)
lstrip(s) == IF s # <<>> /\ Head(s) = " " THEN lstrip(Tail(s)) ELSE s
RECURSIVE rstrip(_)
rstrip(s) ==
    IF s # <<>> /\ s[Len(s)] = " " THEN rstrip(SubSeq(s, 1, Len(s) - 1)) ELSE s
strip(s) == rstrip(lstrip(s))

\* MedicationBase.validate_name / validate_dosage: the value accepted
MedicationBase_valid(data) == strip(data.name) # <<>> /\ strip(data.dosage) # <<>>
MedicationBase_validate_name(v) == title(strip(v))
MedicationBase_validate_dosage(v) == strip(v)

\* MedicationCreate after validation: the object the handler receives
MedicationCreate(data) ==
    [name |-> MedicationBase_validate_name(data.name),
     dosage |-> MedicationBase_validate_dosage(data.dosage),
     unit |-> data.unit]

\* MedicationService.find_similar_medication: the ids of the rows with
\* lower(name) = name.lower(), the same dosage and the same unit
find_similar_medication(name, dosage, unit) ==
    {m \in DOMAIN medications :
        /\ lower(medications[m].name) = lower(name)
        /\ medications[m].dosage = dosage
        /\ medications[m].unit = unit}

\* MedicationService.update_medication: setattr for every field that was
\* sent; MedicationUpdate has no validator on name or dosage
update_medication(med, upd) ==
    [f \in DOMAIN med |-> IF f \in DOMAIN upd THEN upd[f] ELSE med[f]]

\* mutant: a treatment of any status counts
is_medication_in_use_AnyStatus(m) ==
    Cardinality({t \in DOMAIN treatments :
                    treatments[t].medication_id = m}) > 0

\* MedicationService.is_medication_in_use
is_medication_in_use(m) ==
    Cardinality({t \in DOMAIN treatments :
                    /\ treatments[t].medication_id = m
                    /\ treatments[t].status = "ACTIVE"}) > 0

\* Medication.treatments is cascade="all, delete-orphan": the treatment ids
\* that db.delete(medication) deletes with medication m
medication_treatments(m) ==
    {t \in DOMAIN treatments : treatments[t].medication_id = m}

\* POST /medications/ : create_medication
create_medication_outcome(u, data) ==
    IF get_caregiver_user(u) # "Ok" THEN get_caregiver_user(u)
    ELSE IF ~MedicationBase_valid(data) THEN "ValidationError"
    ELSE IF find_similar_medication(MedicationCreate(data).name,
                                    MedicationCreate(data).dosage,
                                    MedicationCreate(data).unit) # {}
         THEN "DuplicateResource"
    ELSE "Ok"

CreateMedication(u, data) ==
    /\ nextMedicationId <= MaxMedicationId
    /\ LET kind == create_medication_outcome(u, data)
       IN  /\ medications' =
                IF kind = "Ok"
                THEN [m \in DOMAIN medications \cup {nextMedicationId} |->
                        IF m = nextMedicationId THEN MedicationCreate(data)
                        ELSE medications[m]]
                ELSE medications
           /\ nextMedicationId' =
                IF kind = "Ok" THEN nextMedicationId + 1 ELSE nextMedicationId
           /\ resp' = Response("create_medication", kind, {}, <<>>)
    /\ UNCHANGED <<inflight, users, patients, treatments, alarms,
                   nextPatientId, nextTreatmentId, nextAlarmId, today>>

\* PUT /medications/{id} : update_medication
update_medication_outcome(u, m) ==
    IF get_caregiver_user(u) # "Ok" THEN get_caregiver_user(u)
    ELSE IF m \notin DOMAIN medications THEN "NotFound"
    ELSE "Ok"

UpdateMedication(u, m, upd) ==
    /\ LET kind == update_medication_outcome(u, m)
       IN  /\ medications' =
                IF kind = "Ok"
                THEN [medications EXCEPT ![m] = update_medication(@, upd)]
                ELSE medications
           /\ resp' = Response("update_medication", kind, {}, <<>>)
    /\ UNCHANGED <<inflight, users, patients, treatments, alarms,
                   nextPatientId, nextTreatmentId, nextAlarmId,
                   nextMedicationId, today>>

\* DELETE /medications/{id} : delete_medication
delete_medication_outcome(u, m) ==
    IF get_caregiver_user(u) # "Ok" THEN get_caregiver_user(u)
    ELSE IF m \notin DOMAIN medications THEN "NotFound"
    ELSE IF is_medication_in_use(m) THEN "DependentResourceExists"
    ELSE "Ok"

DeleteMedication(u, m) ==
    /\ LET kind == delete_medication_outcome(u, m)
       IN  /\ medications' =
                IF kind = "Ok"
                THEN [n \in DOMAIN medications \ {m} |-> medications[n]]
                ELSE medications
           /\ treatments' =
                IF kind = "Ok"
                THEN [t \in DOMAIN treatments \ medication_treatments(m) |->
                        treatments[t]]
                ELSE treatments
           /\ alarms' =
                IF kind = "Ok"
                THEN [a \in {b \in DOMAIN alarms :
                                alarms[b].treatment_id
                                    \notin medication_treatments(m)}
                        |-> alarms[a]]
                ELSE alarms
           /\ resp' = Response("delete_medication", kind, {}, <<>>)
    /\ UNCHANGED <<inflight, users, patients,
                   nextPatientId, nextTreatmentId, nextAlarmId,
                   nextMedicationId, today>>

----------------------------------------------------------------------------
(* Accounts: app/core/security.py, app/services/auth_service.py,            *)
(* app/api/auth.py.  A bcrypt hash is the pair of the scheme and the        *)
(* password it was made from; last_login is <<>> when NULL and otherwise    *)
(* <<d>> for a timestamp of day d.                                          *)

\* mutant: every password is accepted
verify_password_Any(plain_password, hashed_password) == TRUE

get_password_hash(password) == <<"bcrypt", password>>

verify_password(plain_password, hashed_password) ==
    hashed_password = get_password_hash(plain_password)

\* AuthService.create_user: the row of a new account
User(email, password, role) ==
    [email |-> email, hashed_password |-> get_password_hash(password),
     role |-> role, is_active |-> TRUE, last_login |-> <<>>]

\* AuthService.get_user_by_email: the ids of the rows with that email
get_user_by_email(email) == {v \in DOMAIN users : users[v].email = email}

\* AuthService.authenticate_user: the ids of the user it returns
authenticate_user(email, password) ==
    {v \in get_user_by_email(email) :
        verify_password(password, users[v].hashed_password)}

\* AuthService.update_user: setattr for every key of the dict that is an
\* attribute of the row
update_user(user, user_data) ==
    [f \in DOMAIN user |-> IF f \in DOMAIN user_data THEN user_data[f] ELSE user[f]]

\* POST /auth/login : login
login_outcome(email, password) ==
    IF authenticate_user(email, password) = {} THEN "InvalidCredentials"
    ELSE IF \E v \in authenticate_user(email, password) : ~users[v].is_active
         THEN "InactiveAccount"
    ELSE "Ok"

Login(email, password) ==
    /\ LET kind == login_outcome(email, password)
           found == authenticate_user(email, password)
       IN  /\ users' =
                IF kind = "Ok"
                THEN [v \in DOMAIN users |->
                        IF v \in found
                        THEN [users[v] EXCEPT !.last_login = <<today>>]
                        ELSE users[v]]
                ELSE users
           /\ resp' = Response("login", kind,
                               IF kind = "Ok" THEN found ELSE {}, <<>>)
    /\ UNCHANGED <<inflight, patients, medications, treatments, alarms,
                   nextPatientId, nextTreatmentId, nextAlarmId,
                   nextMedicationId, today>>

\* PUT /auth/me : update_profile, the body is any dict
UpdateProfile(u, user_data) ==
    /\ LET kind == get_current_user(u)
       IN  /\ users' =
                IF kind = "Ok"
                THEN [users EXCEPT ![u] = update_user(@, user_data)]
                ELSE users
           /\ resp' = Response("update_profile", kind, {}, <<>>)
    /\ UNCHANGED <<inflight, patients, medications, treatments, alarms,
                   nextPatientId, nextTreatmentId, nextAlarmId,
                   nextMedicationId, today>>

\* PUT /auth/users/{user_id}/activate : activate_user, which toggles
activate_user_outcome(u, user_id) ==
    IF get_current_user(u) # "Ok" THEN get_current_user(u)
    ELSE IF users[u].role # "ADMIN" THEN "Forbidden"
    ELSE IF user_id \notin DOMAIN users THEN "NotFound"
    ELSE "Ok"

\* AuthService.toggle_user_status
toggle_user_status(user) == [user EXCEPT !.is_active = ~user.is_active]

ActivateUser(u, user_id) ==
    /\ LET kind == activate_user_outcome(u, user_id)
       IN  /\ users' =
                IF kind = "Ok"
                THEN [users EXCEPT ![user_id] = toggle_user_status(@)]
                ELSE users
           /\ resp' = Response("activate_user", kind, {}, <<>>)
    /\ UNCHANGED <<inflight, patients, medications, treatments, alarms,
                   nextPatientId, nextTreatmentId, nextAlarmId,
                   nextMedicationId, today>>

----------------------------------------------------------------------------
(* The system: caregivers create treatments for their patients and read    *)
(* them, and patients are deleted, while the days pass.                     *)

\* the accounts: an administrator, two caregivers and a patient account
InitUsers ==
    (1 :> User("u1@x.com", "pw1", "ADMIN"))
    @@ (2 :> User("u2@x.com", "pw2", "CAREGIVER"))
    @@ (3 :> User("u3@x.com", "pw3", "CAREGIVER"))
    @@ (4 :> User("u4@x.com", "pw4", "PATIENT"))

\* one patient of each caregiver
InitPatients ==
    (1 :> [name |-> "n1", email |-> "a@x.com", caregiver_id |-> 2])
    @@ (2 :> [name |-> "n2", email |-> "b@x.com", caregiver_id |-> 3])

\* the catalogue holds one medication, "Ab" 5 mg, as POST /medications/
\* stores it
InitMedications ==
    (1 :> [name |-> <<"A", "b">>, dosage |-> <<"5">>, unit |-> "mg"])

UserIds == DOMAIN InitUsers

Init ==
    /\ users = InitUsers
    /\ patients = InitPatients
    /\ medications = InitMedications
    /\ nextMedicationId = 2
    /\ inflight = <<>>
    /\ treatments = <<>>
    /\ alarms = <<>>
    /\ nextPatientId = 3
    /\ nextTreatmentId = 1
    /\ nextAlarmId = 1
    /\ today = 1
    /\ resp = NoResponse

\* the bodies of POST /treatments/ that are sent
TreatmentInputs ==
    [patient_id : {1, 2}, medication_id : {1, 2}, duration_days : {1},
     start_date : {1}, end_date : {0, 1, 2}, notes : {<<>>}]

Next ==
    \/ \E u \in UserIds, data \in TreatmentInputs : CreateTreatment(u, data)
    \/ \E u \in UserIds, p \in {0, 2}, st \in {Unset, "ACTIVE"} :
            ListTreatments(u, p, st, 0)
    \/ \E u \in UserIds, t \in 1..MaxTreatmentId : GetTreatment(u, t)
    \/ \E u \in UserIds, p \in 1..2 : DeletePatient(u, p)
    \/ Tick

Spec == Init /\ [][Next]_vars

----------------------------------------------------------------------------
(* The lifecycle of treatments: the first caregiver's patient has an       *)
(* ACTIVE treatment with an alarm at 08:30; more treatments are created    *)
(* and all of them are activated, suspended, completed, cancelled and      *)
(* updated.                                                                *)

InitTreatment ==
    [patient_id |-> 1, medication_id |-> 1, start_date |-> 0,
     end_date |-> 1, notes |-> <<>>, status |-> "ACTIVE"]

InitAlarms ==
    (1 :> [treatment_id |-> 1, time |-> <<"0", "8", ":", "3", "0">>, is_active |-> TRUE,
           sound_enabled |-> TRUE, visual_enabled |-> TRUE, description |-> ""])

InitLifecycle ==
    /\ users = InitUsers
    /\ patients = InitPatients
    /\ medications = InitMedications
    /\ nextMedicationId = 2
    /\ inflight = <<>>
    /\ treatments = (1 :> InitTreatment)
    /\ alarms = InitAlarms
    /\ nextPatientId = 3
    /\ nextTreatmentId = 2
    /\ nextAlarmId = 2
    /\ today = 1
    /\ resp = NoResponse

\* the bodies of POST /treatments/ that are sent here
LifecycleInputs ==
    [patient_id : {1}, medication_id : {1}, duration_days : {1},
     start_date : {1}, end_date : {1, 2}, notes : {<<>>}]

\* the bodies of PUT /treatments/{id} that set the status
StatusUpdates ==
    {[keys |-> {"status"}, status |-> st] : st \in {"SUSPENDED", "COMPLETED"}}

\* the treatment ids requests name: the rows and one that does not exist
LifecycleIds == 1..MaxTreatmentId

NextLifecycle ==
    \/ \E u \in UserIds, data \in LifecycleInputs : CreateTreatment(u, data)
    \/ \E u \in UserIds, t \in LifecycleIds : ActivateTreatment(u, t)
    \/ \E u \in UserIds, t \in LifecycleIds : SuspendTreatment(u, t, "r")
    \/ \E u \in UserIds, t \in LifecycleIds : CompleteTreatment(u, t, "")
    \/ \E u \in UserIds, t \in LifecycleIds : DeleteTreatment(u, t)
    \/ \E u \in UserIds, t \in LifecycleIds, upd \in StatusUpdates :
            UpdateTreatment(u, t, upd)

SpecLifecycle == InitLifecycle /\ [][NextLifecycle]_vars

----------------------------------------------------------------------------
(* Deleting a patient whose two treatments change status while the days    *)
(* pass.                                                                   *)

InitDeletePatient ==
    /\ users = InitUsers
    /\ patients = InitPatients
    /\ medications = InitMedications
    /\ nextMedicationId = 2
    /\ inflight = <<>>
    /\ treatments = (1 :> InitTreatment)
                    @@ (2 :> [InitTreatment EXCEPT !.end_date = 2])
    /\ alarms = InitAlarms
    /\ nextPatientId = 3
    /\ nextTreatmentId = 3
    /\ nextAlarmId = 2
    /\ today = 1
    /\ resp = NoResponse

NextDeletePatient ==
    \/ \E u \in UserIds, t \in 1..3 : ActivateTreatment(u, t)
    \/ \E u \in UserIds, t \in 1..3 : CompleteTreatment(u, t, "")
    \/ \E u \in UserIds, t \in 1..3 : DeleteTreatment(u, t)
    \/ \E u \in UserIds, t \in 1..3 :
            UpdateTreatment(u, t, [keys |-> {"status"}, status |-> "SUSPENDED"])
    \/ \E u \in UserIds, p \in 1..3 : DeletePatient(u, p)
    \/ Tick

SpecDeletePatient == InitDeletePatient /\ [][NextDeletePatient]_vars

----------------------------------------------------------------------------
(* Alarm times: datetime.strptime(s, "%H:%M") and ORDER BY alarms.time *)

\* the characters of the time strings; the value of each is its rank in the
\* column's collation ('0' < ... < '9' < ':') and, for a digit, its number
CharRank ==
    [c \in {"0", "1", "2", "3", "4", "5", "6", "7", "8", "9", ":"} |->
        CASE c = "0" -> 0 [] c = "1" -> 1 [] c = "2" -> 2 [] c = "3" -> 3
          [] c = "4" -> 4 [] c = "5" -> 5 [] c = "6" -> 6 [] c = "7" -> 7
          [] c = "8" -> 8 [] c = "9" -> 9 [] c = ":" -> 10]

IsDigits(s) == \A i \in 1..Len(s) : s[i] # ":"

\* int() of one or two digits
DigitsValue(s) ==
    IF Len(s) = 1 THEN CharRank[s[1]]
    ELSE 10 * CharRank[s[1]] + CharRank[s[2]]

\* the positions at which s splits into hour, ':' and minute as the
\* directives %H and %M read them: one or two digits each, 0..23 and 0..59
TimeSplits(s) ==
    {k \in 1..Len(s) :
        /\ s[k] = ":"
        /\ LET h == SubSeq(s, 1, k - 1)
               m == SubSeq(s, k + 1, Len(s))
           IN  /\ Len(h) \in {1, 2} /\ IsDigits(h) /\ DigitsValue(h) <= 23
               /\ Len(m) \in {1, 2} /\ IsDigits(m) /\ DigitsValue(m) <= 59}

\* datetime.strptime(s, "%H:%M") returns (TRUE) or raises ValueError (FALSE)
strptime(s) == TimeSplits(s) # {}

\* the time of day that strptime reads in s, in minutes
TimeOfDay(s) ==
    LET k == CHOOSE j \in TimeSplits(s) : TRUE
    IN  60 * DigitsValue(SubSeq(s, 1, k - 1))
            + DigitsValue(SubSeq(s, k + 1, Len(s)))

\* s sorts before t, or with it, in ORDER BY of a string column
StrLeq(s, t) ==
    \/ /\ Len(s) <= Len(t)
       /\ \A i \in 1..Len(s) : s[i] = t[i]
    \/ \E k \in 1..Len(s) :
        /\ k <= Len(t)
        /\ \A i \in 1..(k - 1) : s[i] = t[i]
        /\ CharRank[s[k]] < CharRank[t[k]]

\* AlarmCreate.validate_time_format
AlarmCreate_validate_time_format(v) == strptime(v)

\* AlarmUpdate.validate_time_format
AlarmUpdate_validate_time_format(v) == v = Null \/ strptime(v)

----------------------------------------------------------------------------
(* Alarms: app/services/treatment_service.py, app/api/alarms.py *)

\* dict.get(key, default)
Get(d, key, default) == IF key \in DOMAIN d THEN d[key] ELSE default

\* the alarm ids of treatment t
treatment_alarms(t) == {a \in DOMAIN alarms : alarms[a].treatment_id = t}

\* x or default, for a text column that may be NULL
Or(x, default) == IF x = Null THEN default ELSE x

\* alarm_dict of TreatmentService.get_treatment_alarms: one alarm as the
\* listing returns it, a NULL description as "" (the flags, which it would
\* return as True when NULL, are never NULL here: no request sends a null
\* flag)
alarm_dict(a, row) ==
    [id |-> a, treatment_id |-> row.treatment_id, time |-> row.time,
     is_active |-> row.is_active, sound_enabled |-> row.sound_enabled,
     visual_enabled |-> row.visual_enabled,
     description |-> Or(row.description, "")]

\* result of TreatmentService.create_alarm: the columns of the new row as
\* they are
alarm_result(a, row) ==
    [id |-> a, treatment_id |-> row.treatment_id, time |-> row.time,
     is_active |-> row.is_active, sound_enabled |-> row.sound_enabled,
     visual_enabled |-> row.visual_enabled, description |-> row.description]

\* AlarmResponse, the response_model of the handlers of app/api/alarms.py:
\* description is a str, and a row whose description is NULL does not
\* validate
AlarmResponse_valid(row) == row.description # Null
AlarmResponse(a, row) ==
    [id |-> a, treatment_id |-> row.treatment_id, time |-> row.time,
     is_active |-> row.is_active, sound_enabled |-> row.sound_enabled,
     visual_enabled |-> row.visual_enabled, description |-> row.description]

\* TreatmentService.get_treatment_alarms: every list the query may return;
\* ORDER BY alarms.time leaves the order of equal times to the database
get_treatment_alarms(t) ==
    IF t \notin DOMAIN treatments THEN {<<>>}
    ELSE LET ids == treatment_alarms(t)
             n == Cardinality(ids)
             orders == {o \in [1..n -> ids] :
                            /\ \A i, j \in 1..n : i # j => o[i] # o[j]
                            /\ \A i, j \in 1..n : i < j =>
                                StrLeq(alarms[o[i]].time, alarms[o[j]].time)}
         IN  {[i \in 1..n |-> alarm_dict(o[i], alarms[o[i]])] : o \in orders}

\* TreatmentService.create_alarm: what it raises, or "Ok"
create_alarm_outcome(t, alarm_data) ==
    IF t \notin DOMAIN treatments THEN "TreatmentNotFound"
    ELSE IF Get(alarm_data, "time", <<>>) = <<>> THEN "TimeRequired"
    ELSE IF ~strptime(alarm_data.time) THEN "InvalidTimeFormat"
    ELSE "Ok"

\* TreatmentService.create_alarm: the row it inserts
create_alarm(t, alarm_data) ==
    [treatment_id |-> t,
     time |-> alarm_data.time,
     is_active |-> Get(alarm_data, "is_active", TRUE),
     sound_enabled |-> Get(alarm_data, "sound_enabled", TRUE),
     visual_enabled |-> Get(alarm_data, "visual_enabled", TRUE),
     description |-> Get(alarm_data, "description", "")]

\* TreatmentService.sync_treatment_alarms, which no endpoint calls: the
\* entries of new_alarms it creates (and returns), those create_alarm
\* accepts, in the order given; the others are logged and skipped
sync_treatment_alarms(t, new_alarms) ==
    SelectSeq(new_alarms, LAMBDA d : create_alarm_outcome(t, d) = "Ok")

\* the Alarm row that the handlers of app/api/alarms.py build from a
\* validated AlarmCreate
alarm_from_schema(t, alarm_data) ==
    [treatment_id |-> t,
     time |-> alarm_data.time,
     is_active |-> Get(alarm_data, "is_active", TRUE),
     sound_enabled |-> Get(alarm_data, "sound_enabled", TRUE),
     visual_enabled |-> Get(alarm_data, "visual_enabled", TRUE),
     description |-> IF Get(alarm_data, "description", "") = Null THEN ""
                     ELSE Get(alarm_data, "description", "")]

\* the table after the rows of `rows` were inserted, in order
insert_alarms(table, rows) ==
    [a \in DOMAIN table \cup {nextAlarmId + i - 1 : i \in 1..Len(rows)} |->
        IF a \in DOMAIN table THEN table[a] ELSE rows[a - nextAlarmId + 1]]

\* TreatmentService.delete_all_treatment_alarms
delete_all_treatment_alarms(t) ==
    [a \in DOMAIN alarms \ treatment_alarms(t) |-> alarms[a]]

\* GET /treatments/{id}/alarms : get_treatment_alarms of treatments.py
ListAlarms(u, t) ==
    /\ LET kind == verify_treatment_access(u, t)
       IN  \E list \in get_treatment_alarms(t) :
                resp' = Response("list_alarms", kind, {t},
                                 IF kind = "Ok" THEN list ELSE <<>>)
    /\ UNCHANGED <<inflight, dbvars, today>>

\* POST /treatments/{id}/alarms : create_treatment_alarm of treatments.py;
\* the body is a plain dict and what the service raises is not caught
create_treatment_alarm_outcome(u, t, alarm_data) ==
    IF verify_treatment_access(u, t) # "Ok" THEN verify_treatment_access(u, t)
    ELSE create_alarm_outcome(t, alarm_data)

CreateAlarm(u, t, alarm_data) ==
    /\ nextAlarmId <= MaxAlarmId
    /\ LET kind == create_treatment_alarm_outcome(u, t, alarm_data)
           rows == IF kind = "Ok" THEN <<create_alarm(t, alarm_data)>> ELSE <<>>
       IN  /\ alarms' = insert_alarms(alarms, rows)
           /\ nextAlarmId' = nextAlarmId + Len(rows)
           /\ resp' = Response("create_alarm", kind, {t},
                        [i \in 1..Len(rows) |->
                            alarm_result(nextAlarmId + i - 1, rows[i])])
    /\ UNCHANGED <<inflight, users, nextMedicationId,
                   patients, medications, treatments,
                   nextPatientId, nextTreatmentId, today>>

\* the row of an alarm after setattr for every field that was sent
update_alarm(row, alarm_data) ==
    [f \in DOMAIN row |-> Get(alarm_data, f, row[f])]

\* PUT /treatments/{id}/alarms/{alarm_id} : update_treatment_alarm.  A NULL
\* time fails the commit; a NULL description is committed and then the
\* response does not validate against AlarmResponse
update_treatment_alarm_outcome(u, t, a, alarm_data) ==
    IF verify_treatment_access(u, t) # "Ok" THEN verify_treatment_access(u, t)
    ELSE IF /\ "time" \in DOMAIN alarm_data
            /\ ~AlarmUpdate_validate_time_format(alarm_data.time)
         THEN "InvalidTimeFormat"
    ELSE IF a \notin treatment_alarms(t) THEN "NotFound"
    ELSE IF Get(alarm_data, "time", <<>>) = Null THEN "InternalError"
    ELSE IF ~AlarmResponse_valid(update_alarm(alarms[a], alarm_data))
         THEN "ResponseValidationError"
    ELSE "Ok"

UpdateAlarm(u, t, a, alarm_data) ==
    /\ LET kind == update_treatment_alarm_outcome(u, t, a, alarm_data)
       IN  /\ alarms' =
                IF kind \in {"Ok", "ResponseValidationError"}
                THEN [alarms EXCEPT ![a] = update_alarm(@, alarm_data)]
                ELSE alarms
           /\ resp' = Response("update_alarm", kind, {t},
                        IF kind = "Ok"
                        THEN <<AlarmResponse(a, alarms'[a])>> ELSE <<>>)
    /\ UNCHANGED <<inflight, users, nextMedicationId,
                   patients, medications, treatments,
                   nextPatientId, nextTreatmentId, nextAlarmId, today>>

\* DELETE /treatments/{id}/alarms/{alarm_id} : delete_treatment_alarm of
\* treatments.py; its own 404 is caught by `except Exception` and becomes 500
delete_treatment_alarm_outcome(u, t, a) ==
    IF verify_treatment_access(u, t) # "Ok" THEN verify_treatment_access(u, t)
    ELSE IF a \notin treatment_alarms(t) THEN "InternalError"
    ELSE "Ok"

DeleteAlarm(u, t, a) ==
    /\ LET kind == delete_treatment_alarm_outcome(u, t, a)
       IN  /\ alarms' =
                IF kind = "Ok"
                THEN [b \in DOMAIN alarms \ {a} |-> alarms[b]]
                ELSE alarms
           /\ resp' = Response("delete_alarm", kind, {t}, <<>>)
    /\ UNCHANGED <<inflight, users, nextMedicationId,
                   patients, medications, treatments,
                   nextPatientId, nextTreatmentId, nextAlarmId, today>>

\* POST /treatments/{id}/alarms/sync : sync_treatment_alarms of alarms.py;
\* the body is a List[AlarmCreate], one invalid entry refuses the request,
\* and the delete and the inserts are one commit
sync_treatment_alarms_outcome(u, t, alarms_data) ==
    IF verify_treatment_access(u, t) # "Ok" THEN verify_treatment_access(u, t)
    ELSE IF \E i \in 1..Len(alarms_data) :
                ~AlarmCreate_validate_time_format(alarms_data[i].time)
         THEN "InvalidTimeFormat"
    ELSE IF t \notin DOMAIN treatments /\ alarms_data # <<>> THEN "InternalError"
    ELSE "Ok"

\* the handler body: one DELETE, the inserts, one commit.  The handler is
\* an async def that never awaits, so its body runs without another
\* request's handler in between
sync_treatment_alarms_body(u, t, alarms_data) ==
    /\ nextAlarmId + Len(alarms_data) - 1 <= MaxAlarmId
    /\ LET kind == sync_treatment_alarms_outcome(u, t, alarms_data)
           rows == IF kind = "Ok"
                   THEN [i \in 1..Len(alarms_data) |->
                            alarm_from_schema(t, alarms_data[i])]
                   ELSE <<>>
       IN  /\ alarms' =
                IF kind = "Ok"
                THEN insert_alarms(delete_all_treatment_alarms(t), rows)
                ELSE alarms
           /\ nextAlarmId' = nextAlarmId + Len(rows)
           /\ resp' = Response("sync_alarms", kind, {t},
                        [i \in 1..Len(rows) |->
                            AlarmResponse(nextAlarmId + i - 1, rows[i])])
    /\ UNCHANGED <<users, nextMedicationId,
                   patients, medications, treatments,
                   nextPatientId, nextTreatmentId, today>>

SyncAlarms(u, t, alarms_data) ==
    /\ sync_treatment_alarms_body(u, t, alarms_data)
    /\ UNCHANGED inflight

\* the same handler answering request r of those that were sent together
\* and are waiting for the event loop
SyncAlarmsInFlight(r) ==
    /\ ~inflight[r].done
    /\ sync_treatment_alarms_body(inflight[r].u, inflight[r].t,
                                  inflight[r].alarms_data)
    /\ inflight' = [inflight EXCEPT ![r].done = TRUE]

----------------------------------------------------------------------------
(* The alarms of a treatment are created, listed, updated, deleted and     *)
(* replaced, by the caregiver of its patient and by another caregiver.     *)

\* the treatment of patient 1, whose caregiver is user 2
InitTreatments == (1 :> InitTreatment)

InitAlarm ==
    /\ users = InitUsers
    /\ patients = InitPatients
    /\ medications = InitMedications
    /\ nextMedicationId = 2
    /\ inflight = <<>>
    /\ treatments = InitTreatments
    /\ alarms = <<>>
    /\ nextPatientId = 3
    /\ nextTreatmentId = 2
    /\ nextAlarmId = 1
    /\ today = 1
    /\ resp = NoResponse

\* the time strings that are sent: "08:30", "8:30", "10:00", "25:00"
TimeInputs ==
    {<<"0", "8", ":", "3", "0">>, <<"8", ":", "3", "0">>,
     <<"1", "0", ":", "0", "0">>, <<"2", "5", ":", "0", "0">>}

\* the bodies of POST .../alarms and the entries of a sync request: a
\* time alone, or "10:00" with a null description
AlarmInputs ==
    {[time |-> s] : s \in TimeInputs}
        \cup {[time |-> <<"1", "0", ":", "0", "0">>, description |-> Null]}

\* the bodies of PUT .../alarms/{alarm_id}: "8:30", "25:00", a flag, or a
\* null description
AlarmUpdates ==
    {[time |-> <<"8", ":", "3", "0">>], [time |-> <<"2", "5", ":", "0", "0">>],
     [is_active |-> FALSE], [description |-> Null]}

\* the bodies of a sync request
SyncInputs ==
    UNION {[1..n -> AlarmInputs] : n \in 0..MaxSyncLen}

\* the users whose requests are followed: the two caregivers
AlarmUsers == {u \in UserIds : users[u].role = "CAREGIVER"}

NextAlarm ==
    \/ \E u \in AlarmUsers : \E t \in DOMAIN InitTreatments : ListAlarms(u, t)
    \/ \E u \in AlarmUsers : \E t \in DOMAIN InitTreatments : \E d \in AlarmInputs :
            CreateAlarm(u, t, d)
    \/ \E u \in AlarmUsers : \E t \in DOMAIN InitTreatments : \E a \in 1..MaxAlarmId :
            \E d \in AlarmUpdates : UpdateAlarm(u, t, a, d)
    \/ \E u \in AlarmUsers : \E t \in DOMAIN InitTreatments : \E a \in 1..MaxAlarmId :
            DeleteAlarm(u, t, a)
    \/ \E u \in AlarmUsers : \E t \in DOMAIN InitTreatments : \E d \in SyncInputs :
            SyncAlarms(u, t, d)

SpecAlarm == InitAlarm /\ [][NextAlarm]_vars

----------------------------------------------------------------------------
(* Patients are registered, edited and deleted.                            *)

\* one patient is registered
InitPatient ==
    /\ users = InitUsers
    /\ patients = (1 :> InitPatients[1])
    /\ medications = InitMedications
    /\ nextMedicationId = 2
    /\ inflight = <<>>
    /\ treatments = <<>>
    /\ alarms = <<>>
    /\ nextPatientId = 2
    /\ nextTreatmentId = 1
    /\ nextAlarmId = 1
    /\ today = 1
    /\ resp = NoResponse

Emails == {"a@x.com", "b@x.com", "c@x.com"}

PatientInputs == [name : {"n3"}, email : Emails]

PatientUpdates ==
    {[keys |-> {"email"}, email |-> e] : e \in Emails}
        \cup {[keys |-> {"name"}, name |-> "m"]}

NextPatient ==
    \/ \E u \in UserIds : \E data \in PatientInputs : CreatePatient(u, data)
    \/ \E u \in UserIds : \E p \in 1..MaxPatientId : \E upd \in PatientUpdates :
            UpdatePatient(u, p, upd)
    \/ \E u \in UserIds : \E p \in 1..MaxPatientId : DeletePatient(u, p)

SpecPatient == InitPatient /\ [][NextPatient]_vars

----------------------------------------------------------------------------
(* The catalogue of medications is extended, edited and pruned by a        *)
(* caregiver and by a patient account, while the treatment that uses the   *)
(* first medication is suspended, completed and activated again.           *)

InitMedication ==
    /\ users = InitUsers
    /\ patients = InitPatients
    /\ medications = InitMedications
    /\ nextMedicationId = 2
    /\ inflight = <<>>
    /\ treatments = (1 :> InitTreatment)
    /\ alarms = InitAlarms
    /\ nextPatientId = 3
    /\ nextTreatmentId = 2
    /\ nextAlarmId = 2
    /\ today = 1
    /\ resp = NoResponse

\* the bodies of POST /medications/ that are sent: "ab", " AB", "b" and a
\* blank name, 5 mg
MedicationInputs ==
    [name : {<<"a", "b">>, <<" ", "A", "B">>, <<"b">>, <<" ">>},
     dosage : {<<"5">>, <<"5", " ">>}, unit : {"mg"}]

\* the bodies of PUT /medications/{id} that are sent
MedicationUpdates ==
    {[name |-> <<"a", "b">>], [name |-> <<"b">>], [unit |-> "ml"]}

\* the accounts that send them: a caregiver and a patient account
MedicationUsers == {2, 4}

NextMedication ==
    \/ \E u \in MedicationUsers, data \in MedicationInputs :
            CreateMedication(u, data)
    \/ \E u \in MedicationUsers, m \in 1..2, upd \in MedicationUpdates :
            UpdateMedication(u, m, upd)
    \/ \E u \in MedicationUsers, m \in 1..2 : DeleteMedication(u, m)
    \/ SuspendTreatment(2, 1, "r")
    \/ CompleteTreatment(2, 1, "")
    \/ ActivateTreatment(2, 1)

SpecMedication == InitMedication /\ [][NextMedication]_vars

----------------------------------------------------------------------------
(* Who may touch a patient: accounts change their role through their       *)
(* profile while patients are registered, edited and deleted.              *)

InitAccess ==
    /\ users = InitUsers
    /\ patients = InitPatients
    /\ medications = InitMedications
    /\ nextMedicationId = 2
    /\ inflight = <<>>
    /\ treatments = <<>>
    /\ alarms = <<>>
    /\ nextPatientId = 3
    /\ nextTreatmentId = 1
    /\ nextAlarmId = 1
    /\ today = 1
    /\ resp = NoResponse

\* the bodies of PUT /auth/me that are sent
ProfileUpdates == {[role |-> r] : r \in UserRole}

\* the accounts that edit their profile
ProfileUsers == {2, 4}

\* the patient ids requests name: the two rows and one that does not exist
AccessPatientIds == 1..3

\* the body of PUT /patients/{id} that is sent
AccessUpdates == {[keys |-> {"name"}, name |-> "m"]}

NextAccess ==
    \/ \E u \in ProfileUsers, user_data \in ProfileUpdates :
            UpdateProfile(u, user_data)
    \/ \E u \in UserIds, p \in AccessPatientIds, upd \in AccessUpdates :
            UpdatePatient(u, p, upd)
    \/ \E u \in UserIds, p \in AccessPatientIds : DeletePatient(u, p)

SpecAccess == InitAccess /\ [][NextAccess]_vars

----------------------------------------------------------------------------
(* Accounts log in, are deactivated and reactivated by the administrator   *)
(* or deactivate themselves, and go on sending requests with the token     *)
(* they hold; one token names an account that is no row.                   *)

InitAccount ==
    /\ users = InitUsers
    /\ patients = InitPatients
    /\ medications = InitMedications
    /\ nextMedicationId = 2
    /\ inflight = <<>>
    /\ treatments = (1 :> InitTreatment)
    /\ alarms = InitAlarms
    /\ nextPatientId = 3
    /\ nextTreatmentId = 2
    /\ nextAlarmId = 2
    /\ today = 1
    /\ resp = NoResponse

\* the subjects of the tokens presented: the administrator, a caregiver and
\* an id that is no row
AccountUsers == {1, 2, 5}

\* the accounts the administrator toggles
ToggledUsers == {1, 2}

\* the body of PUT /auth/me that is sent
AccountUpdates == {[is_active |-> FALSE]}

\* the forms of POST /auth/login that are sent
LoginEmails == {"u2@x.com", "u9@x.com"}
LoginPasswords == {"pw2", "bad"}

NextAccount ==
    \/ \E email \in LoginEmails, password \in LoginPasswords :
            Login(email, password)
    \/ \E u \in AccountUsers, user_id \in ToggledUsers : ActivateUser(u, user_id)
    \/ \E u \in AccountUsers, user_data \in AccountUpdates :
            UpdateProfile(u, user_data)
    \/ \E u \in AccountUsers : SuspendTreatment(u, 1, "r")
    \/ \E u \in AccountUsers : ActivateTreatment(u, 1)
    \/ \E u \in AccountUsers : DeleteMedication(u, 1)
    \/ Tick

SpecAccount == InitAccount /\ [][NextAccount]_vars

----------------------------------------------------------------------------
(* Two requests to replace the alarms of the same treatment are sent       *)
(* together by its caregiver and are answered in either order.  The        *)
(* treatment has an alarm at 08:30.                                        *)

\* the bodies of the two requests: "08:30"; "10:00"; "25:00"; nothing;
\* "25:00" and "10:00"
PairInputs ==
    {<<[time |-> <<"0", "8", ":", "3", "0">>]>>,
     <<[time |-> <<"1", "0", ":", "0", "0">>]>>,
     <<[time |-> <<"2", "5", ":", "0", "0">>]>>,
     <<>>,
     <<[time |-> <<"2", "5", ":", "0", "0">>],
       [time |-> <<"1", "0", ":", "0", "0">>]>>,
     <<[time |-> <<"1", "0", ":", "0", "0">>],
       [time |-> <<"2", "5", ":", "0", "0">>]>>,
     <<[time |-> <<"8", ":", "3", "0">>]>>}

InitSync ==
    /\ users = InitUsers
    /\ patients = InitPatients
    /\ medications = InitMedications
    /\ nextMedicationId = 2
    /\ inflight \in [1..2 -> [u : {2}, t : {1}, alarms_data : PairInputs,
                               done : {FALSE}]]
    /\ treatments = InitTreatments
    /\ alarms = InitAlarms
    /\ nextPatientId = 3
    /\ nextTreatmentId = 2
    /\ nextAlarmId = 2
    /\ today = 1
    /\ resp = NoResponse

NextSync == \E r \in DOMAIN inflight : SyncAlarmsInFlight(r)

SpecSync == InitSync /\ [][NextSync]_vars

----------------------------------------------------------------------------
(* The care of one patient: the caregiver of patient 1, another caregiver  *)
(* and the administrator edit the dates of the patient's first treatment,  *)
(* suspend, complete, activate and cancel it, and prescribe more           *)
(* treatments.                                                             *)

\* the bodies of POST /treatments/ that are sent: medication 2 is no row;
\* the dates span 2 days, or are the same day
CareInputs ==
    [patient_id : {1}, medication_id : {1, 2}, duration_days : {2, 5},
     start_date : {1}, end_date : {1, 2}, notes : {<<>>}]

\* the bodies of PUT /treatments/{id} that are sent: one date, or both dates
\* out of order
CareUpdates ==
    {[keys |-> {"end_date"}, end_date |-> 0],
     [keys |-> {"start_date"}, start_date |-> 2],
     [keys |-> {"start_date", "end_date"}, start_date |-> 2, end_date |-> 1]}

\* the accounts that send them
CareUsers == {1, 2, 3}

NextCare ==
    \/ \E u \in CareUsers, data \in CareInputs : CreateTreatment(u, data)
    \/ \E u \in CareUsers, upd \in CareUpdates : UpdateTreatment(u, 1, upd)
    \/ \E u \in CareUsers : SuspendTreatment(u, 1, "r")
    \/ \E u \in CareUsers, notes \in {"", "n"} : CompleteTreatment(u, 1, notes)
    \/ \E u \in CareUsers : ActivateTreatment(u, 1)
    \/ \E u \in CareUsers : DeleteTreatment(u, 1)

SpecCare == InitLifecycle /\ [][NextCare]_vars

----------------------------------------------------------------------------
(* Rows and the rows they reference: treatments are prescribed and change  *)
(* status, alarms are added and edited, the second patient is given the    *)
(* email of the first, and the patients and the medication are deleted.    *)

NextIntegrity ==
    \/ \E u \in CareUsers, data \in CareInputs : CreateTreatment(u, data)
    \/ \E u \in CareUsers, t \in 1..2 : CompleteTreatment(u, t, "")
    \/ \E u \in CareUsers, t \in 1..2 : ActivateTreatment(u, t)
    \/ \E u \in CareUsers, t \in 1..2 :
            CreateAlarm(u, t, [time |-> <<"1", "0", ":", "0", "0">>])
    \/ \E u \in CareUsers, a \in 1..2 :
            UpdateAlarm(u, 1, a, [time |-> <<"2", "5", ":", "0", "0">>])
    \/ \E u \in CareUsers : UpdateAlarm(u, 1, 1, [is_active |-> FALSE])
    \/ \E u \in CareUsers :
            UpdatePatient(u, 2, [keys |-> {"email"}, email |-> "a@x.com"])
    \/ \E u \in CareUsers, p \in 1..2 : DeletePatient(u, p)
    \/ \E u \in CareUsers : DeleteMedication(u, 1)

SpecIntegrity == InitLifecycle /\ [][NextIntegrity]_vars

----------------------------------------------------------------------------
(* Two requests to delete patient 1 are in flight, from its caregiver or   *)
(* from another one, while the caregiver prescribes for the patient, and   *)
(* completes and activates the patient's treatment, and the days pass.     *)

InitRace ==
    /\ users = InitUsers
    /\ patients = InitPatients
    /\ medications = InitMedications
    /\ nextMedicationId = 2
    /\ inflight \in [1..2 -> [u : {2, 3}, p : {1}, pc : {"sent"}]]
    /\ treatments = (1 :> InitTreatment)
    /\ alarms = InitAlarms
    /\ nextPatientId = 3
    /\ nextTreatmentId = 2
    /\ nextAlarmId = 2
    /\ today = 1
    /\ resp = NoResponse

NextRace ==
    \/ \E r \in DOMAIN inflight : DeletePatientAdmit(r)
    \/ \E r \in DOMAIN inflight : DeletePatientInFlight(r)
    \/ \E data \in CareInputs : CreateTreatment(2, data)
    \/ \E t \in 1..2 : CompleteTreatment(2, t, "")
    \/ \E t \in 1..2 : ActivateTreatment(2, t)
    \/ Tick

SpecRace == InitRace /\ [][NextRace]_vars

----------------------------------------------------------------------------
(* Claims *)

\* treatment t belongs to a patient of a caregiver other than c
Foreign(c, t) ==
    /\ t \in DOMAIN treatments
    /\ treatments[t].patient_id \in DOMAIN patients
    /\ patients[treatments[t].patient_id].caregiver_id # c

\* a request of c that names treatment t in its path
GatedRequest(c, t) ==
    \/ GetTreatment(c, t)
    \/ \E upd \in StatusUpdates : UpdateTreatment(c, t, upd)
    \/ DeleteTreatment(c, t)
    \/ ActivateTreatment(c, t)
    \/ SuspendTreatment(c, t, "r")
    \/ CompleteTreatment(c, t, "")
    \/ ListAlarms(c, t)
    \/ \E d \in AlarmInputs : CreateAlarm(c, t, d)
    \/ \E a \in 1..MaxAlarmId : \E d \in AlarmUpdates : UpdateAlarm(c, t, a, d)
    \/ \E a \in 1..MaxAlarmId : DeleteAlarm(c, t, a)
    \/ \E d \in SyncInputs : SyncAlarms(c, t, d)

\* the filters of GET /treatments/
ListFilters == [patient_id : 0..MaxPatientId,
                status : TreatmentStatus \cup {Unset},
                medication_id : 0..1]

\* C1: a CAREGIVER never reads or changes a treatment of another caregiver's
\* patient: every request that names it is answered Forbidden and changes
\* nothing, and the list of treatments never contains it.
C1_ForeignTreatmentForbidden ==
    [][\A c \in UserIds :
        (users[c].role = "CAREGIVER" /\ get_current_user(c) = "Ok") =>
            /\ \A t \in DOMAIN treatments :
                (Foreign(c, t) /\ GatedRequest(c, t)) =>
                    /\ resp'.kind = "Forbidden"
                    /\ UNCHANGED <<treatments, alarms>>
            /\ \A f \in ListFilters :
                ListTreatments(c, f.patient_id, f.status, f.medication_id) =>
                    \A t \in resp'.ids : ~Foreign(c, t)]_vars

\* the part of C1 that the ownership gate does enforce: requests that name a
\* foreign treatment in their path
ForeignGatedRequestForbidden ==
    [][\A c \in UserIds :
        (users[c].role = "CAREGIVER" /\ get_current_user(c) = "Ok") =>
            \A t \in DOMAIN treatments :
                (Foreign(c, t) /\ GatedRequest(c, t)) =>
                    /\ resp'.kind = "Forbidden"
                    /\ UNCHANGED <<treatments, alarms>>]_vars

\* C2: for an existing patient and a requester with access, DELETE
\* /patients/{id} is refused with DependentResourceExists exactly when the
\* patient has an ACTIVE treatment that ends today or later, and then nothing
\* changes; otherwise it succeeds and the patient is gone.
C2_DeleteBlockedIffActive ==
    [][resp'.op = "delete_patient" =>
        \A u \in UserIds : \A p \in DOMAIN patients :
            (verify_patient_access(u, p) = "Ok" /\ DeletePatient(u, p)) =>
                LET blocked == \E t \in DOMAIN treatments :
                                    /\ treatments[t].patient_id = p
                                    /\ treatments[t].status = "ACTIVE"
                                    /\ treatments[t].end_date >= today
                IN  /\ (resp'.kind = "DependentResourceExists") <=> blocked
                    /\ blocked => UNCHANGED <<patients, treatments, alarms>>
                    /\ ~blocked =>
                        (resp'.kind = "Ok" /\ p \notin DOMAIN patients')]_vars

\* C2 happens: the delete was refused for a patient with an ACTIVE treatment
\* in date next to one that is not ACTIVE
C2_Witness ==
    /\ resp.op = "delete_patient"
    /\ resp.kind = "DependentResourceExists"
    /\ \E t \in DOMAIN treatments :
            treatments[t].status = "ACTIVE" /\ treatments[t].end_date >= today
    /\ \E t \in DOMAIN treatments : treatments[t].status # "ACTIVE"

\* C5: POST /treatments/ succeeds only with start_date < end_date; with
\* end_date <= start_date no row is inserted and a requester allowed to create
\* treatments is answered InvalidDateRange.
C5_CreateRequiresDateOrder ==
    [][resp'.op = "create_treatment" =>
        \A u \in UserIds : \A data \in TreatmentInputs :
            CreateTreatment(u, data) =>
                /\ resp'.kind = "Ok" => data.start_date < data.end_date
                /\ data.end_date <= data.start_date =>
                    /\ treatments' = treatments
                    /\ get_caregiver_user(u) = "Ok" =>
                            resp'.kind = "InvalidDateRange"]_vars

\* C5 happens: a creation was refused for its dates, with a treatment in place
C5_Witness ==
    /\ resp.op = "create_treatment"
    /\ resp.kind = "InvalidDateRange"
    /\ treatments # <<>>

\* C6: once a treatment is COMPLETED or CANCELLED no operation changes its
\* status.
C6_TerminalStatus ==
    [][\A t \in DOMAIN treatments :
        (treatments[t].status \in {"COMPLETED", "CANCELLED"}
            /\ t \in DOMAIN treatments') =>
                treatments'[t].status = treatments[t].status]_vars

\* C7: a treatment is created ACTIVE, and for an existing treatment in any
\* status each lifecycle event is accepted and alone decides the new status.
C7_StatusDependsOnlyOnEvent ==
    [][/\ (resp'.op = "create_treatment" /\ resp'.kind = "Ok") =>
            \A u \in UserIds : \A data \in LifecycleInputs :
                CreateTreatment(u, data) =>
                    treatments'[nextTreatmentId].status = "ACTIVE"
       /\ resp'.op = "activate_treatment" =>
            \A u \in UserIds : \A t \in DOMAIN treatments :
                (verify_treatment_access(u, t) = "Ok"
                    /\ ActivateTreatment(u, t)) =>
                        (resp'.kind = "Ok" /\ treatments'[t].status = "ACTIVE")
       /\ resp'.op = "suspend_treatment" =>
            \A u \in UserIds : \A t \in DOMAIN treatments :
                (verify_treatment_access(u, t) = "Ok"
                    /\ SuspendTreatment(u, t, "r")) =>
                        (resp'.kind = "Ok" /\ treatments'[t].status = "SUSPENDED")
       /\ resp'.op = "complete_treatment" =>
            \A u \in UserIds : \A t \in DOMAIN treatments :
                (verify_treatment_access(u, t) = "Ok"
                    /\ CompleteTreatment(u, t, "")) =>
                        (resp'.kind = "Ok" /\ treatments'[t].status = "COMPLETED")
       /\ resp'.op = "delete_treatment" =>
            \A u \in UserIds : \A t \in DOMAIN treatments :
                (verify_treatment_access(u, t) = "Ok"
                    /\ DeleteTreatment(u, t)) =>
                        (resp'.kind = "Ok" /\ treatments'[t].status = "CANCELLED")]_vars

\* C7 happens: a treatment that was suspended, completed and cancelled is
\* ACTIVE again after an activation
C7_Witness ==
    /\ resp.op = "activate_treatment"
    /\ resp.kind = "Ok"
    /\ DOMAIN treatments = {1}
    /\ treatments[1].status = "ACTIVE"
    /\ treatments[1].notes # <<>>

\* C8: activating succeeds on any treatment, ACTIVE ones included, leaves
\* notes, dates and alarms as they were, changes nothing at all on an ACTIVE
\* treatment, and a second activation would change nothing either.
C8_ActivateIdempotent ==
    [][resp'.op = "activate_treatment" =>
        \A u \in UserIds : \A t \in DOMAIN treatments :
            (verify_treatment_access(u, t) = "Ok" /\ ActivateTreatment(u, t)) =>
                /\ resp'.kind = "Ok"
                /\ treatments'[t].status = "ACTIVE"
                /\ treatments'[t].notes = treatments[t].notes
                /\ treatments'[t].start_date = treatments[t].start_date
                /\ treatments'[t].end_date = treatments[t].end_date
                /\ alarms' = alarms
                /\ treatments[t].status = "ACTIVE" => treatments' = treatments
                /\ activate_treatment(treatments'[t]) = treatments'[t]]_vars

\* C8 happens: an activation of the treatment that was ACTIVE all along
C8_Witness ==
    /\ resp.op = "activate_treatment"
    /\ resp.kind = "Ok"
    /\ treatments = (1 :> InitTreatment)
    /\ alarms = InitAlarms

AlarmContent(x) ==
    [time |-> x.time, is_active |-> x.is_active,
     sound_enabled |-> x.sound_enabled, visual_enabled |-> x.visual_enabled,
     description |-> x.description]

ListContent(l) == [i \in DOMAIN l |-> AlarmContent(l[i])]

\* C3: GET .../alarms right after a successful sync of the same treatment
\* returns exactly the alarms the sync created, in ascending time of day, and
\* the same list of times, flags and descriptions whatever list the database
\* may return.
C3_SyncThenListRoundTrip ==
    [][\A u \in AlarmUsers : \A t \in DOMAIN treatments :
        (/\ resp.op = "sync_alarms" /\ resp.kind = "Ok" /\ resp.ids = {t}
         /\ ListAlarms(u, t) /\ resp'.kind = "Ok") =>
            LET n == Len(resp'.list)
            IN  /\ n = Len(resp.list)
                /\ \E o \in [1..n -> 1..n] :
                        \A i \in 1..n : resp'.list[i] = resp.list[o[i]]
                /\ \A i, j \in 1..n : i < j =>
                        TimeOfDay(resp'.list[i].time)
                            <= TimeOfDay(resp'.list[j].time)
                /\ \A l \in get_treatment_alarms(t) :
                        ListContent(l) = ListContent(resp'.list)]_vars

\* two digits, a colon, two digits, hour 0..23 and minute 0..59
IsHHMM(s) ==
    /\ Len(s) = 5
    /\ s[3] = ":"
    /\ IsDigits(SubSeq(s, 1, 2)) /\ DigitsValue(SubSeq(s, 1, 2)) <= 23
    /\ IsDigits(SubSeq(s, 4, 5)) /\ DigitsValue(SubSeq(s, 4, 5)) <= 59

\* C4: for a requester with access to the treatment, creating an alarm,
\* updating an alarm's time and replacing the alarms succeed exactly when
\* every time sent is HH:MM with hour 0..23 and minute 0..59; otherwise the
\* answer is InvalidTimeFormat and the alarms stay as they were.
C4_TimeAcceptedIffHHMM ==
    [][\A u \in AlarmUsers : \A t \in DOMAIN treatments :
        verify_treatment_access(u, t) = "Ok" =>
            /\ \A d \in AlarmInputs : CreateAlarm(u, t, d) =>
                /\ (resp'.kind = "Ok") <=> IsHHMM(d.time)
                /\ ~IsHHMM(d.time) =>
                    (resp'.kind = "InvalidTimeFormat" /\ alarms' = alarms)
            /\ \A a \in treatment_alarms(t) : \A d \in AlarmUpdates :
                ("time" \in DOMAIN d /\ UpdateAlarm(u, t, a, d)) =>
                    /\ (resp'.kind = "Ok") <=> IsHHMM(d.time)
                    /\ ~IsHHMM(d.time) =>
                        (resp'.kind = "InvalidTimeFormat" /\ alarms' = alarms)
            /\ \A d \in SyncInputs : SyncAlarms(u, t, d) =>
                LET ok == \A i \in 1..Len(d) : IsHHMM(d[i].time)
                IN  /\ (resp'.kind = "Ok") <=> ok
                    /\ ~ok => (resp'.kind = "InvalidTimeFormat"
                                    /\ alarms' = alarms)]_vars

\* no two patient rows have the same email
UniqueEmails ==
    \A p, q \in DOMAIN patients :
        p # q => patients[p].email # patients[q].email

\* C10: no two patients ever have the same email; creating a patient with an
\* email in use, or moving a patient to the email of another patient, fails
\* and leaves the patients as they were, with DuplicateResource for a
\* requester who may make the request.
C10_UniquePatientEmail ==
    /\ UniqueEmails
    /\ [][/\ UniqueEmails'
          /\ resp'.op = "create_patient" =>
                \A u \in UserIds : \A data \in PatientInputs :
                    (/\ \E q \in DOMAIN patients :
                            patients[q].email = data.email
                     /\ CreatePatient(u, data)) =>
                        /\ patients' = patients
                        /\ resp'.kind # "Ok"
                        /\ get_caregiver_user(u) = "Ok" =>
                                resp'.kind = "DuplicateResource"
          /\ resp'.op = "update_patient" =>
                \A u \in UserIds : \A p \in DOMAIN patients :
                    \A upd \in PatientUpdates :
                        (/\ "email" \in upd.keys
                         /\ \E q \in DOMAIN patients \ {p} :
                                patients[q].email = upd.email
                         /\ UpdatePatient(u, p, upd)) =>
                            /\ patients' = patients
                            /\ resp'.kind # "Ok"
                            /\ verify_patient_access(u, p) = "Ok" =>
                                    resp'.kind = "DuplicateResource"]_vars

\* C10 happens: with two patients registered, an update to the email of
\* another patient was refused
C10_Witness ==
    /\ resp.op = "update_patient"
    /\ resp.kind = "DuplicateResource"
    /\ Cardinality(DOMAIN patients) = 2

\* the key the catalogue is meant to be unique on
MedicationKey(med) == <<lower(med.name), med.dosage, med.unit>>

UniqueMedications ==
    \A m, n \in DOMAIN medications :
        MedicationKey(medications[m]) = MedicationKey(medications[n]) => m = n

(* C11: whatever medications are created and updated, no two rows of the   *)
(* catalogue have the same (lower-case name, dosage, unit), and a POST     *)
(* that would make such a pair is answered DuplicateResource.              *)
C11_UniqueMedicationKey ==
    /\ UniqueMedications
    /\ [][/\ UniqueMedications'
          /\ resp'.op = "create_medication" =>
                \A u \in MedicationUsers, data \in MedicationInputs :
                    (/\ CreateMedication(u, data)
                     /\ get_caregiver_user(u) = "Ok"
                     /\ MedicationBase_valid(data)
                     /\ \E m \in DOMAIN medications :
                            MedicationKey(medications[m])
                                = MedicationKey(MedicationCreate(data)))
                    => resp'.kind = "DuplicateResource"]_vars

\* an ACTIVE treatment uses medication m
ActivelyUsed(m) ==
    \E t \in DOMAIN treatments :
        treatments[t].medication_id = m /\ treatments[t].status = "ACTIVE"

(* C12: for a requester who may delete medications and a medication M of   *)
(* the catalogue, DELETE /medications/M is answered DependentResourceExists *)
(* exactly when some treatment with medication_id = M is ACTIVE; then the   *)
(* medications and the treatments are as before; otherwise M is no longer   *)
(* in the catalogue.                                                        *)
C12_DeleteMedicationBlockedIffInUse ==
    [][resp'.op = "delete_medication" =>
        \A u \in MedicationUsers, m \in DOMAIN medications :
            (DeleteMedication(u, m) /\ get_caregiver_user(u) = "Ok") =>
                /\ resp'.kind = "DependentResourceExists" <=> ActivelyUsed(m)
                /\ ActivelyUsed(m) =>
                        medications' = medications /\ treatments' = treatments
                /\ ~ActivelyUsed(m) => m \notin DOMAIN medications']_vars

\* C12 happens: the delete of medication 1, which an ACTIVE treatment uses,
\* was refused after medication 2, which no treatment uses, was deleted
C12_Witness ==
    /\ resp.op = "delete_medication"
    /\ resp.kind = "DependentResourceExists"
    /\ ActivelyUsed(1)
    /\ nextMedicationId > 2
    /\ 2 \notin DOMAIN medications

(* C13: a DELETE /medications/M that succeeds removes the medication row   *)
(* only: every treatment and every alarm is still there afterwards.        *)
C13_DeleteMedicationNoCascade ==
    [][resp'.op = "delete_medication" =>
        \A u \in MedicationUsers, m \in DOMAIN medications :
            (DeleteMedication(u, m) /\ resp'.kind = "Ok") =>
                treatments' = treatments /\ alarms' = alarms]_vars

\* patient p is a row whose caregiver_id is u
Owns(u, p) == p \in DOMAIN patients /\ patients[p].caregiver_id = u

OwnTreatment(c, t) ==
    /\ t \in DOMAIN treatments
    /\ treatments[t].patient_id \in DOMAIN patients
    /\ patients[treatments[t].patient_id].caregiver_id = c

\* account c is authenticated, is not an ADMIN, and t is not a treatment of
\* one of its patients
Outsider(c, t) ==
    /\ get_current_user(c) = "Ok"
    /\ users[c].role # "ADMIN"
    /\ ~OwnTreatment(c, t)

\* the step was answered Forbidden, with no data, and changed nothing
Refused ==
    /\ resp'.kind = "Forbidden"
    /\ resp'.ids = {}
    /\ resp'.list = <<>>
    /\ UNCHANGED dbvars

\* every request on treatment t that account c can send would be answered
\* Forbidden
AllForbidden(c, t) ==
    /\ \A upd \in StatusUpdates :
            update_treatment_outcome(c, t, upd) = "Forbidden"
    /\ delete_treatment_outcome(c, t) = "Forbidden"
    /\ lifecycle_outcome(c, t) = "Forbidden"

(* C15: for an authenticated account that is not an ADMIN, a request on a  *)
(* treatment id that is not a treatment of one of its patients gets the    *)
(* same answer whether the id is a treatment of another caregiver or no    *)
(* treatment at all: Forbidden, and a request answered Forbidden gets no   *)
(* data and changes nothing.                                               *)
C15_NoExistenceLeak ==
    /\ [](\A c \in UserIds, t \in LifecycleIds :
                Outsider(c, t) => AllForbidden(c, t))
    /\ [][resp'.kind = "Forbidden" => Refused]_vars

\* C15 happens: a request was refused while treatment 1, of caregiver 2's
\* patient, is there and treatment 2 is not
C15_Witness ==
    /\ resp.op = "activate_treatment"
    /\ resp.kind = "Forbidden"
    /\ OwnTreatment(2, 1)
    /\ 2 \notin DOMAIN treatments

\* the answer to a request whose token names account u, when u is no row or
\* is deactivated
Rejection(u) ==
    IF u \notin DOMAIN users THEN "InvalidToken" ELSE "InactiveAccount"

\* the token of the step's request names an account that is no row or is
\* deactivated
Revoked(u) == u \notin DOMAIN users \/ ~users[u].is_active

\* the step was answered with the rejection of u and changed nothing
Rejected(u) == resp'.kind = Rejection(u) /\ UNCHANGED <<dbvars, today>>

(* C16: while an account is deactivated, or is no row, every request that  *)
(* presents its token is rejected (InactiveAccount; for an account that is *)
(* no row, the 401 of a token that cannot be validated) and changes        *)
(* nothing.  After the administrator reactivates it, its requests are      *)
(* served again.                                                           *)
C16_RevokedAccountRejected ==
    [][/\ resp'.op = "activate_user" =>
            \A u \in AccountUsers, user_id \in ToggledUsers :
                (Revoked(u) /\ ActivateUser(u, user_id)) => Rejected(u)
       /\ resp'.op = "update_profile" =>
            \A u \in AccountUsers, user_data \in AccountUpdates :
                (Revoked(u) /\ UpdateProfile(u, user_data)) => Rejected(u)
       /\ resp'.op = "suspend_treatment" =>
            \A u \in AccountUsers :
                (Revoked(u) /\ SuspendTreatment(u, 1, "r")) => Rejected(u)
       /\ resp'.op = "activate_treatment" =>
            \A u \in AccountUsers :
                (Revoked(u) /\ ActivateTreatment(u, 1)) => Rejected(u)
       /\ resp'.op = "delete_medication" =>
            \A u \in AccountUsers :
                (Revoked(u) /\ DeleteMedication(u, 1)) => Rejected(u)]_vars

\* C16 happens: caregiver 2 is deactivated and a request to suspend the
\* treatment, which only caregiver 2 and the administrator may touch and
\* which is still ACTIVE, was rejected with InactiveAccount
C16_Witness ==
    /\ ~users[2].is_active
    /\ resp.op = "suspend_treatment"
    /\ resp.kind = "InactiveAccount"
    /\ treatments[1].status = "ACTIVE"

\* the accounts with that email whose hash was made from that password
Matching(email, password) ==
    {v \in DOMAIN users :
        /\ users[v].email = email
        /\ users[v].hashed_password[2] = password}

(* C17: POST /auth/login issues a session exactly when an account has the  *)
(* email, its password is the one given and it is active, and then stamps  *)
(* last_login of that account and of no other; with an unknown email or a  *)
(* wrong password it answers InvalidCredentials, with the right password   *)
(* of a deactivated account InactiveAccount, and in both cases no          *)
(* last_login, and nothing else, changes.                                  *)
C17_LoginIssuesSessionIffActiveMatch ==
    [][resp'.op = "login" =>
        \A email \in LoginEmails, password \in LoginPasswords :
            Login(email, password) =>
                LET found == Matching(email, password)
                    active == {v \in found : users[v].is_active}
                IN  /\ resp'.kind = "Ok" <=> active # {}
                    /\ found = {} => resp'.kind = "InvalidCredentials"
                    /\ (found # {} /\ active = {}) =>
                            resp'.kind = "InactiveAccount"
                    /\ resp'.kind # "Ok" => users' = users
                    /\ resp'.kind = "Ok" =>
                            /\ resp'.ids = active
                            /\ \A v \in DOMAIN users :
                                    users'[v] =
                                        IF v \in active
                                        THEN [users[v] EXCEPT !.last_login = <<today>>]
                                        ELSE users[v]]_vars

\* C17 happens: caregiver 2 logged in on day 1, was deactivated, and a login
\* on day 2 with the right password was answered InactiveAccount
C17_Witness ==
    /\ resp.op = "login"
    /\ resp.kind = "InactiveAccount"
    /\ users[2].last_login = <<1>>
    /\ today = 2

\* the ids of S in ascending order
Ascending(S) ==
    CHOOSE f \in [1..Cardinality(S) -> S] :
        \A i, j \in 1..Cardinality(S) : i < j => f[i] < f[j]

\* the alarms of treatment t in the order they were inserted: time, flags
\* and description of each
StoredAlarms(t) ==
    [i \in 1..Cardinality(treatment_alarms(t)) |->
        AlarmContent(alarms[Ascending(treatment_alarms(t))[i]])]

\* what the entries of specs that pass validation say, in the order given
ValidEntries(t, specs) ==
    [i \in 1..Len(sync_treatment_alarms(t, specs)) |->
        AlarmContent(create_alarm(t, sync_treatment_alarms(t, specs)[i]))]

\* a sync of treatment t with list d by a requester who may, where some
\* entry of d fails validation
PartlyInvalidSync(u, t, d) ==
    /\ verify_treatment_access(u, t) = "Ok"
    /\ t \in DOMAIN treatments
    /\ Len(sync_treatment_alarms(t, d)) < Len(d)
    /\ SyncAlarms(u, t, d)

(* C18: when an entry of the list fails validation, the alarms the         *)
(* treatment had before the sync are deleted all the same, and the         *)
(* treatment ends up with one alarm for every entry that passes, those     *)
(* before and those after the failing one; nothing is rolled back.         *)
C18_SyncNotAtomic ==
    [][resp'.op = "sync_alarms" =>
        \A u \in AlarmUsers, t \in DOMAIN InitTreatments, d \in SyncInputs :
            PartlyInvalidSync(u, t, d) =>
                /\ treatment_alarms(t) \cap DOMAIN alarms' = {}
                /\ StoredAlarms(t)' = ValidEntries(t, d)]_vars

(* C19: a sync answers with the alarms it created, one for every entry     *)
(* of the list that passes validation, in the order of the list; entries   *)
(* that fail are left out and no error is reported.                        *)
C19_SyncReturnsCreated ==
    [][resp'.op = "sync_alarms" =>
        \A u \in AlarmUsers, t \in DOMAIN InitTreatments, d \in SyncInputs :
            (/\ verify_treatment_access(u, t) = "Ok"
             /\ t \in DOMAIN treatments
             /\ SyncAlarms(u, t, d)) =>
                /\ resp'.kind = "Ok"
                /\ ListContent(resp'.list) = ValidEntries(t, d)]_vars

(* C20: when two syncs of the same treatment that were sent together have  *)
(* both been answered, the treatment has exactly the alarms of the valid   *)
(* entries of one of the two lists.                                        *)
C20_SyncLastWriterWins ==
    (inflight # <<>> /\ \A r \in DOMAIN inflight : inflight[r].done) =>
        \E r \in DOMAIN inflight :
            StoredAlarms(inflight[r].t)
                = ValidEntries(inflight[r].t, inflight[r].alarms_data)

(* C21: for a requester who may access treatment T, updating or deleting   *)
(* an alarm id that is no alarm of T (no row, or a row of another          *)
(* treatment) is answered AlarmNotFound (404) and no alarm is changed or   *)
(* removed.                                                                *)
C21_AlarmScopedToTreatment ==
    [][/\ resp'.op = "update_alarm" =>
            \A u \in AlarmUsers, t \in DOMAIN InitTreatments,
               a \in 1..MaxAlarmId, d \in AlarmUpdates :
                (/\ verify_treatment_access(u, t) = "Ok"
                 /\ a \notin treatment_alarms(t)
                 /\ UpdateAlarm(u, t, a, d)) =>
                    (resp'.kind = "NotFound" /\ alarms' = alarms)
       /\ resp'.op = "delete_alarm" =>
            \A u \in AlarmUsers, t \in DOMAIN InitTreatments, a \in 1..MaxAlarmId :
                (/\ verify_treatment_access(u, t) = "Ok"
                 /\ a \notin treatment_alarms(t)
                 /\ DeleteAlarm(u, t, a)) =>
                    (resp'.kind = "NotFound" /\ alarms' = alarms)]_vars

\* the operations that return alarms
AlarmOps == {"create_alarm", "update_alarm", "list_alarms", "sync_alarms"}

(* C22: every alarm that creating, updating, listing or replacing alarms   *)
(* returns has a description that is a string, never null; an alarm        *)
(* created with no description, or with a null one, has the description    *)
(* "", and is_active, sound_enabled and visual_enabled are true when the   *)
(* request leaves them out.                                                *)
C22_DescriptionNeverNull ==
    [][/\ resp'.op \in AlarmOps =>
            \A i \in 1..Len(resp'.list) : resp'.list[i].description # Null
       /\ (resp'.op = "create_alarm" /\ resp'.kind = "Ok") =>
            \A u \in AlarmUsers, t \in DOMAIN InitTreatments, d \in AlarmInputs :
                CreateAlarm(u, t, d) =>
                    /\ Get(d, "description", Null) = Null =>
                            resp'.list[1].description = ""
                    /\ "is_active" \notin DOMAIN d => resp'.list[1].is_active
                    /\ "sound_enabled" \notin DOMAIN d =>
                            resp'.list[1].sound_enabled
                    /\ "visual_enabled" \notin DOMAIN d =>
                            resp'.list[1].visual_enabled]_vars

\* every treatment row ends after it starts
DatesInOrder ==
    \A t \in DOMAIN treatments :
        treatments[t].end_date > treatments[t].start_date

(* C23: every stored treatment has end_date strictly after start_date,    *)
(* after it is created and after every update, whether the update sends   *)
(* both dates, only start_date or only end_date.                          *)
C23_EndAfterStart == DatesInOrder

\* every alarm is an alarm of a treatment row, and every treatment is a
\* treatment of a patient row with a medication row
ReferentialIntegrity ==
    /\ \A a \in DOMAIN alarms : alarms[a].treatment_id \in DOMAIN treatments
    /\ \A t \in DOMAIN treatments :
        /\ treatments[t].patient_id \in DOMAIN patients
        /\ treatments[t].medication_id \in DOMAIN medications

(* C24: in every state every alarm references a treatment that exists and *)
(* every treatment references a patient and a medication that exist.  A   *)
(* request to create a treatment with a medication id that is no row      *)
(* persists nothing, and is answered MedicationNotFound when the          *)
(* requester may prescribe for the patient and the dates are in order.    *)
(* After a patient is deleted none of its treatments and none of their    *)
(* alarms remain.                                                         *)
C24_ReferentialIntegrity ==
    /\ ReferentialIntegrity
    /\ [][/\ ReferentialIntegrity'
          /\ resp'.op = "create_treatment" =>
                \A u \in CareUsers, data \in CareInputs :
                    (data.medication_id \notin DOMAIN medications
                        /\ CreateTreatment(u, data)) =>
                            /\ treatments' = treatments
                            /\ resp'.kind # "Ok"
                            /\ (/\ verify_patient_access(u, data.patient_id) = "Ok"
                                /\ data.end_date > data.start_date) =>
                                    resp'.kind = "MedicationNotFound"
          /\ (resp'.op = "delete_patient" /\ resp'.kind = "Ok") =>
                \A u \in CareUsers, p \in 1..2 :
                    DeletePatient(u, p) =>
                        /\ p \notin DOMAIN patients'
                        /\ \A t \in DOMAIN treatments' :
                                treatments'[t].patient_id # p
                        /\ \A a \in DOMAIN alarms' :
                                alarms'[a].treatment_id
                                    \notin patient_treatments(p)]_vars

\* C24 happens: patient 1 was deleted after a second treatment and a second
\* alarm had been created for it, and nothing of them is left
C24_Witness ==
    /\ resp.op = "delete_patient"
    /\ resp.kind = "Ok"
    /\ 1 \notin DOMAIN patients
    /\ nextTreatmentId > 2
    /\ nextAlarmId > 2
    /\ treatments = <<>>
    /\ alarms = <<>>

\* the errors of a request that was refused for what it asked
Failures ==
    {"Forbidden", "NotFound", "InvalidDateRange", "InvalidTimeFormat",
     "DuplicateResource", "DependentResourceExists", "MedicationNotFound",
     "TreatmentNotFound"}

Appended(old, new, text) ==
    /\ Len(new) = Len(old) + 1
    /\ SubSeq(new, 1, Len(old)) = old
    /\ new[Len(new)].text = text

(* C26: the lifecycle events only ever append to a treatment's notes.     *)
(* After a suspension the notes are the previous notes followed by the    *)
(* reason; after a completion with notes they are the previous notes      *)
(* followed by the completion notes; a completion without notes, an       *)
(* activation and a cancellation leave the notes as they were.            *)
C26_NotesAppendOnly ==
    [][/\ (resp'.op = "suspend_treatment" /\ resp'.kind = "Ok") =>
            \A u \in CareUsers :
                SuspendTreatment(u, 1, "r") =>
                    Appended(treatments[1].notes, treatments'[1].notes, "r")
       /\ (resp'.op = "complete_treatment" /\ resp'.kind = "Ok") =>
            \A u \in CareUsers, notes \in {"", "n"} :
                CompleteTreatment(u, 1, notes) =>
                    IF notes = ""
                    THEN treatments'[1].notes = treatments[1].notes
                    ELSE Appended(treatments[1].notes, treatments'[1].notes,
                                  notes)
       /\ resp'.op \in {"activate_treatment", "delete_treatment"} =>
            \A t \in DOMAIN treatments :
                t \in DOMAIN treatments'
                    /\ treatments'[t].notes = treatments[t].notes]_vars

\* C26 happens: the treatment was completed with notes and then suspended,
\* and its notes are the completion notes followed by the reason
C26_Witness ==
    /\ resp.op = "suspend_treatment"
    /\ resp.kind = "Ok"
    /\ Len(treatments[1].notes) = 2
    /\ treatments[1].notes[1].text = "n"
    /\ treatments[1].notes[2].text = "r"

(* C27: no account gains privileges through the operations that need no   *)
(* ADMIN identity: no account has the role ADMIN unless it had it from    *)
(* the start, and an update of one's own profile (PUT /auth/me) changes   *)
(* neither the role nor the is_active flag of any account.                *)
C27_NoPrivilegeEscalation ==
    [][/\ \A v \in DOMAIN users' :
            users'[v].role = "ADMIN" =>
                (v \in DOMAIN InitUsers /\ InitUsers[v].role = "ADMIN")
       /\ resp'.op = "update_profile" =>
            \A v \in DOMAIN users :
                /\ users'[v].role = users[v].role
                /\ users'[v].is_active = users[v].is_active]_vars

(* C28: the status of a treatment changes only through activation,        *)
(* suspension, completion and cancellation: PUT /treatments/{id} never    *)
(* changes it, and a treatment never becomes SUSPENDED without a          *)
(* suspension reason being appended to its notes in the same step.        *)
C28_StatusOnlyByLifecycle ==
    [][\A t \in DOMAIN treatments :
        t \in DOMAIN treatments' =>
            /\ resp'.op = "update_treatment" =>
                    treatments'[t].status = treatments[t].status
            /\ (treatments[t].status # "SUSPENDED"
                    /\ treatments'[t].status = "SUSPENDED") =>
                        /\ Len(treatments'[t].notes) = Len(treatments[t].notes) + 1
                        /\ treatments'[t].notes[Len(treatments'[t].notes)].tag
                                = "Suspendido: "]_vars

\* treatment t is ACTIVE and ends today or later
Current(t) ==
    treatments[t].status = "ACTIVE" /\ treatments[t].end_date >= today

SpannedDays(data) == (data.end_date - data.start_date) + 1

\* the duration of a body is more than one day off the days its dates span
DurationOff(data) ==
    \/ data.duration_days - SpannedDays(data) > 1
    \/ SpannedDays(data) - data.duration_days > 1

(* C30: a request to create a treatment whose duration_days differs by    *)
(* more than 1 from the days its dates span, (end_date - start_date) + 1, *)
(* is rejected for its duration and no treatment is persisted (checked on *)
(* the bodies whose dates are in order, which nothing else rejects).      *)
C30_DurationMatchesDates ==
    [][resp'.op = "create_treatment" =>
        \A u \in CareUsers, data \in CareInputs :
            (/\ get_caregiver_user(u) = "Ok"
             /\ TreatmentBase_validate_end_date(data)
             /\ DurationOff(data)
             /\ CreateTreatment(u, data)) =>
                (resp'.kind = "DurationMismatch" /\ treatments' = treatments)]_vars

====
